---- MODULE Spec2Model ----
(***************************************************************************)
(* A model of bibupdate (src/bibupdate.py): the Bibtex record, the search  *)
(* dictionary built for the database lookups, the reconciliation of a      *)
(* record with the candidates a lookup returns, the main loop over the     *)
(* records of a bibtex file, and the reading and printing of the text of   *)
(* a file and of its entries.                                              *)
(*                                                                         *)
(* Strings of the program that are inspected character by character (field *)
(* values, titles, page ranges) are sequences of one-character strings.    *)
(* Names that are only compared (field names, entry types, citation keys,  *)
(* database names) are TLA+ strings.                                       *)
(***************************************************************************)
EXTENDS Integers, Sequences, FiniteSets, TLC

VARIABLES
    bibtexfile,   \* the text read from the bibtex file
    newbibfile,   \* the text written to the new bibtex file so far
    reread,       \* the records that a run on the new bibtex file reads
    options,      \* the option namespace left by set_user_options
    fuzzywuzzy,   \* what "from fuzzywuzzy import fuzz" gave
    papers,       \* the entries that bibtex_entry.finditer yields, in source order
    pc,           \* the position of the run
    idx,          \* index in papers of the record being processed
    bt,           \* the Bibtex object of the record being processed
    db,           \* the loop counter of update_ams
    out,          \* the entries written to newbibfile so far
    log,          \* the messages sent to the reporting channels for this record
    requests,     \* the lookup requests issued for this record
    call,         \* the last update_* call on this record: its arguments and locals
    status,       \* the exit status of the process, -1 while it runs
    err           \* what was written to sys.stderr by bib_error or the except hook

vars == <<bibtexfile, newbibfile, reread, options, fuzzywuzzy, papers, pc, idx, bt, db, out, log, requests, call, status, err>>

(***************************************************************************)
(* Characters and strings                                                  *)
(***************************************************************************)
Digits == {"0", "1", "2", "3", "4", "5", "6", "7", "8", "9"}

UpperChars == <<"A", "B", "C", "D", "E", "F", "G", "H", "I", "J", "K", "L", "M",
                "N", "O", "P", "Q", "R", "S", "T", "U", "V", "W", "X", "Y", "Z">>

LowerChars == <<"a", "b", "c", "d", "e", "f", "g", "h", "i", "j", "k", "l", "m",
                "n", "o", "p", "q", "r", "s", "t", "u", "v", "w", "x", "y", "z">>

Capitals == {UpperChars[i] : i \in DOMAIN UpperChars}

Letters == Capitals \cup {LowerChars[i] : i \in DOMAIN LowerChars}

\* \s of the re module, for the characters of the model
Whitespace == {" ", "\n", "\t"}

\* \w of the re module
WordChars == Letters \cup Digits \cup {"_"}

\* str.lower()
lower(s) ==
    [i \in DOMAIN s |->
        IF s[i] \in Capitals
        THEN LowerChars[CHOOSE j \in DOMAIN UpperChars : UpperChars[j] = s[i]]
        ELSE s[i]]

\* the length of the longest run of characters of C that starts at s[i]
RunLen(s, i, C) ==
    CHOOSE n \in 0..(Len(s) + 1 - i) :
        /\ \A j \in i..(i + n - 1) : s[j] \in C
        /\ (i + n > Len(s) \/ s[i + n] \notin C)

\* the length of the longest run of characters outside C that starts at s[i]
RunLenNot(s, i, C) ==
    CHOOSE n \in 0..(Len(s) + 1 - i) :
        /\ \A j \in i..(i + n - 1) : s[j] \notin C
        /\ (i + n > Len(s) \/ s[i + n] \in C)

\* str.isdigit()
isdigit(s) == Len(s) > 0 /\ \A i \in DOMAIN s : s[i] \in Digits

\* str.strip()
strip(s) ==
    IF \A i \in DOMAIN s : s[i] \in Whitespace
    THEN << >>
    ELSE LET a == CHOOSE i \in DOMAIN s :
                      s[i] \notin Whitespace /\ \A j \in 1..(i - 1) : s[j] \in Whitespace
             z == CHOOSE i \in DOMAIN s :
                      s[i] \notin Whitespace /\ \A j \in (i + 1)..Len(s) : s[j] \in Whitespace
         IN SubSeq(s, a, z)

\* str.split()[0]: the first whitespace-delimited word, or IndexError
HasWord(s) == \E i \in DOMAIN s : s[i] \notin Whitespace

FirstWord(s) ==
    LET t == strip(s) IN SubSeq(t, 1, RunLenNot(t, 1, Whitespace))

(***************************************************************************)
(* The ordered dictionary of fields: a sequence of [k, v] pairs with       *)
(* pairwise different keys, in insertion order.                            *)
(***************************************************************************)
Keys(d) == {d[i].k : i \in DOMAIN d}

KeyList(d) == [i \in DOMAIN d |-> d[i].k]

Has(d, key) == key \in Keys(d)

\* Bibtex.__getitem__: the value, or the default '' for a missing key
Get(d, key) ==
    IF Has(d, key) THEN d[CHOOSE i \in DOMAIN d : d[i].k = key].v ELSE << >>

\* OrderedDict.__setitem__: overwrite in place, or append a new key
Put(d, key, val) ==
    IF Has(d, key)
    THEN [i \in DOMAIN d |-> IF d[i].k = key THEN [k |-> key, v |-> val] ELSE d[i]]
    ELSE Append(d, [k |-> key, v |-> val])

(***************************************************************************)
(* Titles                                                                  *)
(***************************************************************************)
\* the characters of a remove_tex that keeps the underscore
TexChars_underscore_kept == {"{", "}", "'", "\"", "$"}

TexChars == {"{", "}", "'", "\"", "_", "$"}

\* remove_mathematics.sub('', title): drop every span $...$ with at least
\* one character between the dollars, scanning from the left
RECURSIVE remove_mathematics(_)
remove_mathematics(s) ==
    IF s = << >> THEN << >>
    ELSE LET n == RunLenNot(s, 2, {"$"})
         IN IF Head(s) = "$" /\ n >= 1 /\ n + 2 <= Len(s)
            THEN remove_mathematics(SubSeq(s, n + 3, Len(s)))
            ELSE <<Head(s)>> \o remove_mathematics(Tail(s))

\* remove_tex.sub('', title)
remove_tex(s) == SelectSeq(s, LAMBDA c : c \notin TexChars)

clean_title(title) == remove_tex(remove_mathematics(title))

(***************************************************************************)
(* Title matching                                                          *)
(***************************************************************************)
Min(a, b) == IF a <= b THEN a ELSE b

\* the length of the longest common run that starts at a[i] and b[j]
CommonRun(a, i, b, j) ==
    CHOOSE n \in 0..Min(Len(a) + 1 - i, Len(b) + 1 - j) :
        /\ \A t \in 0..(n - 1) : a[i + t] = b[j + t]
        /\ (n = Min(Len(a) + 1 - i, Len(b) + 1 - j) \/ a[i + n] # b[j + n])

\* difflib.SequenceMatcher.find_longest_match: the longest matching block,
\* the one that starts earliest in a and then earliest in b
LongestMatch(a, b) ==
    LET runs == {CommonRun(a, i, b, j) : i \in DOMAIN a, j \in DOMAIN b}
        size == CHOOSE n \in runs : \A m \in runs : m <= n
        i0 == CHOOSE i \in DOMAIN a :
                  /\ \E j \in DOMAIN b : CommonRun(a, i, b, j) = size
                  /\ \A i1 \in 1..(i - 1) : \A j \in DOMAIN b : CommonRun(a, i1, b, j) # size
        j0 == CHOOSE j \in DOMAIN b :
                  /\ CommonRun(a, i0, b, j) = size
                  /\ \A j1 \in 1..(j - 1) : CommonRun(a, i0, b, j1) # size
    IN [i |-> i0, j |-> j0, size |-> size]

\* the sum of the sizes of difflib's matching blocks
RECURSIVE MatchingChars(_, _)
MatchingChars(a, b) ==
    IF a = << >> \/ b = << >> THEN 0
    ELSE LET m == LongestMatch(a, b)
         IN IF m.size = 0 THEN 0
            ELSE m.size
                 + MatchingChars(SubSeq(a, 1, m.i - 1), SubSeq(b, 1, m.j - 1))
                 + MatchingChars(SubSeq(a, m.i + m.size, Len(a)),
                                 SubSeq(b, m.j + m.size, Len(b)))

\* what "from fuzzywuzzy import fuzz" gives: ImportError when the package is
\* not installed, otherwise the fuzz of a release that setup.py accepts
\* (fuzzywuzzy >= 0.2).  The releases differ on two empty strings: in the
\* earlier ones (0.10) fuzz.ratio tests for an empty string first, in the
\* later ones (0.18) it tests for equal strings before that.
fuzz_releases == {"fuzz 0.10", "fuzz 0.18"}

fuzzywuzzy_imports == {"ImportError"} \cup fuzz_releases

\* fuzz.ratio: 0 when a string is empty (in 0.18: 100 for equal strings
\* before that), otherwise int(round(100 * 2M/T)), rounding a half to the
\* even neighbour
ratio(fuzz, s1, s2) ==
    IF fuzz = "fuzz 0.18" /\ s1 = s2 THEN 100
    ELSE IF s1 = << >> \/ s2 = << >> THEN 0
    ELSE LET T == Len(s1) + Len(s2)
             q == (200 * MatchingChars(s1, s2)) \div T
             r == (200 * MatchingChars(s1, s2)) % T
         IN IF 2 * r > T \/ (2 * r = T /\ q % 2 = 1) THEN q + 1 ELSE q

\* the threshold of a good fuzzy match
FuzzyThreshold == 90

\* good_match: fuzzy when fuzzywuzzy was imported, otherwise equality up to case
good_match(fuzzy, one, two) ==
    IF fuzzy \in fuzz_releases
    THEN ratio(fuzzy, lower(one), lower(two)) > FuzzyThreshold
    ELSE lower(one) = lower(two)

(***************************************************************************)
(* Bibtex records                                                          *)
(***************************************************************************)
bibtex_pub_types ==
    {"article", "book", "booklet", "conference", "inbook", "incollection",
     "inproceedings", "manual", "mastersthesis", "misc", "phdthesis",
     "proceedings", "techreport", "unpublished"}

\* the entry types for which define_search_dictionary sets needs_ams
ams_pub_types == {"book", "article", "inproceedings", "incollection"}

\* Bibtex.has_valid_pub_type
has_valid_pub_type(self) == self.parsed /\ self.pub_type \in bibtex_pub_types

\* the pages values that mark a preprint
preprint_pages ==
    { <<"p", "r", "e", "p", "r", "i", "n", "t">>,
      <<"t", "o", " ", "a", "p", "p", "e", "a", "r">>,
      <<"i", "n", " ", "p", "r", "e", "p", "a", "r", "a", "t", "i", "o", "n">> }

\* Bibtex.page_nums.search(pages): [0-9]*-+[0-9]* matched at the leftmost
\* position where a run of digits (possibly empty) is followed by a hyphen
page_nums_at(s, i) ==
    LET a == RunLen(s, i, Digits) IN i + a <= Len(s) /\ s[i + a] = "-"

page_nums(s) ==
    IF \E i \in DOMAIN s : page_nums_at(s, i)
    THEN LET i == CHOOSE i0 \in DOMAIN s :
                      page_nums_at(s, i0) /\ \A i1 \in 1..(i0 - 1) : ~page_nums_at(s, i1)
             a == RunLen(s, i, Digits)
             h == RunLen(s, i + a, {"-"})
             z == RunLen(s, i + a + h, Digits)
         IN [found |-> TRUE,
             apage |-> SubSeq(s, i, i + a - 1),
             zpage |-> SubSeq(s, i + a + h, i + a + h + z - 1)]
    ELSE [found |-> FALSE, apage |-> << >>, zpage |-> << >>]

(***************************************************************************)
(* The author query term                                                   *)
(***************************************************************************)
AndSep == <<" ", "a", "n", "d", " ">>

\* re.sub(' and ', '&', author) followed by replace('~', ' ')
RECURSIVE author_list(_)
author_list(s) ==
    IF s = << >> THEN << >>
    ELSE IF Len(s) >= Len(AndSep) /\ SubSeq(s, 1, Len(AndSep)) = AndSep
    THEN <<"&">> \o author_list(SubSeq(s, Len(AndSep) + 1, Len(s)))
    ELSE <<IF Head(s) = "~" THEN " " ELSE Head(s)>> \o author_list(Tail(s))

\* str.split('&')
RECURSIVE split_amp(_)
split_amp(s) ==
    LET n == RunLenNot(s, 1, {"&"})
    IN IF n = Len(s) THEN <<s>>
       ELSE <<SubSeq(s, 1, n)>> \o split_amp(SubSeq(s, n + 2, Len(s)))

\* the character class [\w\s\\\-\'"{}] of the regular expression Bibtex.author
AuthorChars == WordChars \cup Whitespace \cup {"\\", "-", "'", "\"", "{", "}"}

\* first alternative of Bibtex.author at position i, \s+(?P<Au>[..]+),\s[A-Z]:
\* white space, then the rest of the run of AuthorChars, a comma, a white
\* space and a capital; the white space gives back one character when the
\* run holds nothing else
author_Au_at(s, i) ==
    LET j == i + RunLen(s, i, AuthorChars)
        w == RunLen(s, i, Whitespace)
    IN /\ w >= 1
       /\ j - i >= 2
       /\ j + 2 <= Len(s)
       /\ s[j] = ","
       /\ s[j + 1] \in Whitespace
       /\ s[j + 2] \in Capitals

author_Au(s, i) ==
    LET j == i + RunLen(s, i, AuthorChars)
        w == RunLen(s, i, Whitespace)
    IN SubSeq(s, IF i + w < j THEN i + w ELSE j - 1, j - 1)

\* second alternative at position i, [..]+\s(?P<au>[..]+): the run of
\* AuthorChars is cut at its last white space that leaves both parts non-empty
author_au_cuts(s, i) ==
    LET j == i + RunLen(s, i, AuthorChars)
    IN {p \in (i + 1)..(j - 2) : s[p] \in Whitespace}

author_au_at(s, i) == author_au_cuts(s, i) # {}

author_au(s, i) ==
    LET j == i + RunLen(s, i, AuthorChars)
        p == CHOOSE p0 \in author_au_cuts(s, i) : \A p1 \in author_au_cuts(s, i) : p1 <= p0
    IN SubSeq(s, p + 1, j - 1)

\* Bibtex.author.search(au): the surname found at the leftmost position where
\* one of the alternatives matches, the first alternative first; << >> with
\* found FALSE when there is no match
author(s) ==
    IF \E i \in DOMAIN s : author_Au_at(s, i) \/ author_au_at(s, i)
    THEN LET i == CHOOSE i0 \in DOMAIN s :
                      /\ author_Au_at(s, i0) \/ author_au_at(s, i0)
                      /\ \A i1 \in 1..(i0 - 1) : ~(author_Au_at(s, i1) \/ author_au_at(s, i1))
         IN [found |-> TRUE,
             name |-> IF author_Au_at(s, i) THEN author_Au(s, i) ELSE author_au(s, i)]
    ELSE [found |-> FALSE, name |-> << >>]

\* the string authors of define_search_dictionary: ' and ' + surname for
\* every author in which a surname was found
and_author(a) == IF a.found THEN AndSep \o a.name ELSE << >>

RECURSIVE join_authors(_)
join_authors(aus) ==
    IF aus = << >> THEN << >>
    ELSE and_author(author(strip(Head(aus)))) \o join_authors(Tail(aus))

\* authors must be longer than this to give an author term
MinAuthorsLen == 5

(***************************************************************************)
(* define_search_dictionary                                                *)
(***************************************************************************)
EmptyMap == [x \in {} |-> << >>]

\* the preprint flag
is_preprint(fields) ==
    \/ Has(fields, "pages") /\ lower(Get(fields, "pages")) \in preprint_pages
    \/ ~(Has(fields, "pages") /\ Has(fields, "jounral"))

\* the page terms of the query
search_pages(fields, preprint) ==
    IF Has(fields, "pages") /\ ~preprint
    THEN LET pages == page_nums(Get(fields, "pages"))
         IN IF pages.found
            THEN ("ipage" :> pages.apage) @@ ("fpage" :> pages.zpage)
            ELSE IF isdigit(Get(fields, "pages"))
            THEN ("ipage" :> Get(fields, "pages"))
            ELSE EmptyMap
    ELSE EmptyMap

\* a year term for every record that has a year
search_year_always(fields, pub_type, search) ==
    IF Has(fields, "year") THEN ("year" :> Get(fields, "year")) ELSE EmptyMap

\* the year term, given the page terms
search_year(fields, pub_type, search) ==
    IF Has(fields, "year") /\ (pub_type = "book" \/ "ipage" \in DOMAIN search)
    THEN ("year" :> Get(fields, "year"))
    ELSE EmptyMap

\* the test of line 401 made on the term without its leading ' and '
author_term_stripped(has_author, authors) ==
    IF has_author /\ Len(authors) - Len(AndSep) > MinAuthorsLen
    THEN ("au" :> SubSeq(authors, Len(AndSep) + 1, Len(authors)))
    ELSE EmptyMap

\* the author term
author_term(has_author, authors) ==
    IF has_author /\ Len(authors) > MinAuthorsLen
    THEN ("au" :> SubSeq(authors, Len(AndSep) + 1, Len(authors)))
    ELSE EmptyMap

search_au(fields) ==
    author_term(Has(fields, "author"),
                join_authors(split_amp(author_list(Get(fields, "author")))))

\* a title term for every record that has a non-empty title
search_ti_always(fields, preprint, search) ==
    IF Has(fields, "title") /\ Len(Get(fields, "title")) > 0
    THEN ("ti" :> clean_title(Get(fields, "title")))
    ELSE EmptyMap

\* the title term, given the page terms
search_ti(fields, preprint, search) ==
    IF /\ Has(fields, "title")
       /\ Len(Get(fields, "title")) > 0
       /\ ("ipage" \notin DOMAIN search \/ preprint)
    THEN ("ti" :> clean_title(Get(fields, "title")))
    ELSE EmptyMap

\* the needs_ams flag
needs_ams(fields, pub_type, opts) ==
    opts.all \/ (~Has(fields, "mrnumber") /\ pub_type \in ams_pub_types)

\* the search dictionary, given the preprint flag and the page terms
search(fields, pub_type, preprint, pages) ==
    pages @@ search_year(fields, pub_type, pages) @@ search_au(fields)
          @@ search_ti(fields, preprint, pages)

define_search_dictionary(self, opts) ==
    [self EXCEPT
        !.is_preprint = is_preprint(self.fields),
        !.search = search(self.fields, self.pub_type, is_preprint(self.fields),
                          search_pages(self.fields, is_preprint(self.fields))),
        !.needs_ams = needs_ams(self.fields, self.pub_type, opts)]

\* the object before define_search_dictionary has run
new_Bibtex(entry) ==
    [parsed |-> entry.parsed, pub_type |-> entry.pub_type,
     cite_key |-> entry.cite_key, fields |-> entry.fields,
     bib_string |-> entry.bib_string,
     is_preprint |-> FALSE, search |-> EmptyMap, needs_ams |-> FALSE]

\* Bibtex.__init__ on an entry whose text has been split into its parts:
\* an entry that matches parse_bibtex_entry gets its search dictionary, any
\* other entry only keeps its text
Bibtex(entry, opts) ==
    IF entry.parsed
    THEN define_search_dictionary(new_Bibtex(entry), opts)
    ELSE new_Bibtex(entry)

\* a __str__ that prints every field
Bibtex_str_all(self, opts) ==
    IF self.parsed
    THEN [raw |-> FALSE, pub_type |-> self.pub_type, cite_key |-> self.cite_key,
          fields |-> self.fields, text |-> << >>]
    ELSE [raw |-> TRUE, pub_type |-> "", cite_key |-> "", fields |-> << >>,
          text |-> self.bib_string]

\* Bibtex.__str__ as main writes it: the entry type (printed in upper case),
\* the citation key and the fields that are not in remove_fields, in order;
\* the text of the entry itself when it did not parse
Bibtex_str(self, opts) ==
    IF self.parsed
    THEN [raw |-> FALSE, pub_type |-> self.pub_type, cite_key |-> self.cite_key,
          fields |-> SelectSeq(self.fields, LAMBDA f : f.k \notin opts.remove_fields),
          text |-> << >>]
    ELSE [raw |-> TRUE, pub_type |-> "", cite_key |-> "", fields |-> << >>,
          text |-> self.bib_string]

(***************************************************************************)
(* update_entry                                                            *)
(***************************************************************************)
mrlookup_url == "http://www.ams.org/mrlookup"

mathscinet_url == "http://www.ams.org/mathscinet/search/publications.html"

arxiv_url == "http://export.arxiv.org/api/query"

\* a message sent to one of the reporting channels (bib_print, bibup.warning,
\* bibup.verbose): what it is about and the fields it lists
Message(chan, kind, self, diffs) ==
    [chan |-> chan, kind |-> kind, cite_key |-> self.cite_key, diffs |-> diffs]

\* the entries of a web page as Bibtex objects with a valid publication type
valid_entries(web, opts) ==
    SelectSeq([i \in DOMAIN web |-> Bibtex(web[i], opts)], has_valid_pub_type)

\* the candidates of a response: the valid entries and, when the query has a
\* title term, those among them whose cleaned title is a good match for it
candidates(self, web, opts, fuzzy) ==
    IF "ti" \in DOMAIN self.search
    THEN SelectSeq(valid_entries(web, opts), LAMBDA mr :
             good_match(fuzzy, self.search["ti"], clean_title(Get(mr.fields, "title"))))
    ELSE valid_entries(web, opts)

\* differences that do not leave out the fields of preserve_fields
differences_unpreserved(self, match, opts) ==
    SelectSeq(KeyList(match.fields), LAMBDA key :
        Get(self.fields, key) # Get(match.fields, key))

\* the fields of the match that are not preserved and differ from self
differences(self, match, opts) ==
    SelectSeq(KeyList(match.fields), LAMBDA key :
        key \notin opts.preserve_fields /\ Get(self.fields, key) # Get(match.fields, key))

\* the differences are acted on when one of them has a value in self
actionable(self, diffs) ==
    diffs # << >> /\ \E i \in DOMAIN diffs : Get(self.fields, diffs[i]) # << >>

\* a loop that deletes the key before it assigns it, so that an overwritten
\* field moves behind the others
RECURSIVE overwrite_fields_moved(_, _, _)
overwrite_fields_moved(fields, match, diffs) ==
    IF diffs = << >> THEN fields
    ELSE overwrite_fields_moved(
             Append(SelectSeq(fields, LAMBDA f : f.k # Head(diffs)),
                    [k |-> Head(diffs), v |-> Get(match.fields, Head(diffs))]),
             match, Tail(diffs))

\* a loop that stops after the first key of differences
overwrite_fields_first(fields, match, diffs) ==
    IF diffs = << >> THEN fields
    ELSE Put(fields, Head(diffs), Get(match.fields, Head(diffs)))

\* for key in differences: self[key]=match[key]
RECURSIVE overwrite_fields(_, _, _)
overwrite_fields(fields, match, diffs) ==
    IF diffs = << >> THEN fields
    ELSE overwrite_fields(Put(fields, Head(diffs), Get(match.fields, Head(diffs))), match, Tail(diffs))

\* the result of an update method: the record afterwards, the value returned,
\* the requests issued, the messages sent, the page received, the candidates
\* kept, and the exception that ended the call, if any (IOError when url_lookup
\* could not connect)
Result(self, ret, req, msgs, web, matches, exit) ==
    [self |-> self, ret |-> ret, req |-> req, msgs |-> msgs, web |-> web,
     matches |-> matches, exit |-> exit]

\* a variant of update_match that does not test options.check: the fields are
\* overwritten in check mode too
update_match_unchecked(self, url, web, opts, matches, diffs) ==
    IF actionable(self, diffs)
    THEN Result([self EXCEPT !.fields = overwrite_fields(self.fields, matches[1], diffs)],
                TRUE, <<url>>,
                <<Message("warning", "updating", self, << >>),
                  Message("verbose", "changes", self, diffs)>>, web, matches, "")
    ELSE Result(self, TRUE, <<url>>, << >>, web, matches, "")

\* update_entry with a unique match whose differences from self are diffs
update_match(self, url, web, opts, matches, diffs) ==
    IF actionable(self, diffs)
    THEN IF opts.check
         THEN Result(self, TRUE, <<url>>,
                     <<Message("print", "check", self, diffs)>>, web, matches, "")
         ELSE Result([self EXCEPT !.fields = overwrite_fields(self.fields, matches[1], diffs)],
                     TRUE, <<url>>,
                     <<Message("warning", "updating", self, << >>),
                       Message("verbose", "changes", self, diffs)>>, web, matches, "")
    ELSE Result(self, TRUE, <<url>>, << >>, web, matches, "")

\* a variant of update_matches that takes the first candidate when there are
\* several
update_matches_first(self, url, web, opts, matches) ==
    IF Len(matches) >= 1
    THEN update_match(self, url, web, opts, matches, differences(self, matches[1], opts))
    ELSE Result(self, FALSE, <<url>>,
                IF ~self.is_preprint
                THEN <<Message("verbose", "not found", self, << >>)>> ELSE << >>,
                web, matches, "")

\* the message of line 461 sent for preprints instead
update_matches_preprint(self, url, web, opts, matches) ==
    IF Len(matches) = 1
    THEN update_match(self, url, web, opts, matches, differences(self, matches[1], opts))
    ELSE Result(self, FALSE, <<url>>,
                IF self.is_preprint
                THEN <<Message("verbose", "not found", self, << >>)>> ELSE << >>,
                web, matches, "")

\* update_entry once the candidates matches are known
update_matches(self, url, web, opts, matches) ==
    IF Len(matches) = 1
    THEN update_match(self, url, web, opts, matches, differences(self, matches[1], opts))
    ELSE Result(self, FALSE, <<url>>,
                IF ~self.is_preprint
                THEN <<Message("verbose", "not found", self, << >>)>> ELSE << >>,
                web, matches, "")

\* update_entry once url_lookup has returned the page web
update_entry(self, url, web, opts, fuzzy) ==
    update_matches(self, url, web, opts, candidates(self, web, opts, fuzzy))

\* update_entry: the request, which ends the run through bib_error when
\* url_lookup raises IOError
lookup_entry(self, url, resp, opts, fuzzy) ==
    IF resp.ok
    THEN update_entry(self, url, resp.entries, opts, fuzzy)
    ELSE Result(self, FALSE, <<url>>, << >>, << >>, << >>, "IOError")

update_mrlookup(self, resp, opts, fuzzy) ==
    lookup_entry(self, mrlookup_url, resp, opts, fuzzy)

\* update_mrref: not implemented, returns the flag
update_mrref(self, resp, opts, fuzzy) ==
    Result(self, self.needs_ams, << >>, << >>, << >>, << >>, "")

\* update_mathscinet: the query is built from the first word of mrnumber,
\* which raises IndexError when the field has none
update_mathscinet(self, resp, opts, fuzzy) ==
    IF opts.all \/ ~Has(self.fields, "mrnumber")
    THEN IF HasWord(Get(self.fields, "mrnumber"))
         THEN lookup_entry(self, mathscinet_url, resp, opts, fuzzy)
         ELSE Result(self, FALSE, << >>, << >>, << >>, << >>, "IndexError")
    ELSE Result(self, TRUE, << >>, << >>, << >>, << >>, "")

\* update_arxiv: the except clause names the undefined url, and the loop over
\* the entries of the page names the undefined arxiv_keys_and_vals, so both
\* raise NameError; a page without entries leaves the record alone
update_arxiv(self, resp, opts, fuzzy) ==
    IF ~resp.ok
    THEN Result(self, FALSE, <<arxiv_url>>, << >>, << >>, << >>, "IOError, NameError")
    ELSE IF resp.entries # << >>
    THEN Result(self, FALSE, <<arxiv_url>>, << >>, resp.entries, << >>, "NameError")
    ELSE Result(self, FALSE, <<arxiv_url>>,
                <<Message("verbose", "arxiv links", self, << >>)>>, << >>, << >>, "")

\* getattr(self, 'update_'+name)()
update_method(name, self, resp, opts, fuzzy) ==
    CASE name = "mrlookup" -> update_mrlookup(self, resp, opts, fuzzy)
      [] name = "mrref" -> update_mrref(self, resp, opts, fuzzy)
      [] name = "mathscinet" -> update_mathscinet(self, resp, opts, fuzzy)
      [] name = "arxiv" -> update_arxiv(self, resp, opts, fuzzy)
      [] OTHER -> Result(self, FALSE, << >>, << >>, << >>, << >>, "AttributeError")

(***************************************************************************)
(* The inputs of the model                                                 *)
(***************************************************************************)
\* the longest bibtex file, in entries
MaxPapers == 2

\* the most entries a web page holds
MaxCands == 2

Field(key, val) == [k |-> key, v |-> val]

Entry(pub_type, cite_key, fields) ==
    [parsed |-> TRUE, pub_type |-> pub_type, cite_key |-> cite_key,
     fields |-> fields, bib_string |-> << >>]

\* text that parse_bibtex_entry does not match
Unparsed(text) ==
    [parsed |-> FALSE, pub_type |-> "", cite_key |-> "", fields |-> << >>,
     bib_string |-> text]

\* @article{fred, author={S}, title={A}, year={2}}
fred == Entry("article", "fred",
              <<Field("author", <<"S">>), Field("title", <<"A">>), Field("year", <<"2">>)>>)

\* @book{weyl, title={B}, mrnumber={7}}
weyl == Entry("book", "weyl", <<Field("title", <<"B">>), Field("mrnumber", <<"7">>)>>)

\* an article with pages, searched by its pages and not taken for a preprint
qsa == Entry("article", "qsa", <<Field("title", <<"A">>), Field("pages", <<"1", "-", "2">>),
                                 Field("journal", <<"J">>), Field("jounral", <<"J">>)>>)

\* @phdthesis{phd, title={A}}
phd == Entry("phdthesis", "phd", <<Field("title", <<"A">>)>>)

\* the entries of the bibtex file: fred, a book that has its mrnumber, a
\* thesis, and text that is no entry
InputEntries == {fred, weyl, phd, Unparsed(<<"@", "x">>)}

\* fred with a journal added
MR1 == Entry("article", "MR1", <<Field("author", <<"S">>), Field("title", <<"A">>),
                                 Field("year", <<"2">>), Field("journal", <<"J">>)>>)

\* a paper with the title of fred up to case, another year and an mrnumber
MR2 == Entry("article", "MR2", <<Field("title", <<"a">>), Field("year", <<"3">>),
                                 Field("mrnumber", <<"8">>)>>)

\* a book with the title of weyl
MR3 == Entry("book", "MR3", <<Field("title", <<"B">>), Field("year", <<"2">>)>>)

\* the entries a database returns in a run of main
WebEntries == {MR2, MR3}

SeqsUpTo(S, n) == UNION {[1..m -> S] : m \in 0..n}

\* what url_lookup does: it raises IOError, or returns a page with entries
Responses ==
    {[ok |-> FALSE, entries |-> << >>]}
    \cup {[ok |-> TRUE, entries |-> e] : e \in SeqsUpTo(WebEntries, MaxCands)}

\* the arXiv answers with a page without entries or with one entry
ArxivResponses ==
    {[ok |-> FALSE, entries |-> << >>], [ok |-> TRUE, entries |-> << >>],
     [ok |-> TRUE, entries |-> <<fred>>]}

\* the default of ams-databases
DefaultAmsDatabases == <<"mrlookup", "mrref", "mathscinet">>

\* the lists ams-databases of .bibupdaterc: the default and one other order
AmsDatabases == {DefaultAmsDatabases, <<"mathscinet", "mrlookup">>}

\* set_user_options: the namespace after the rc file and the command line;
\* check implies all, and a single AMS database replaces the list
set_user_options(update, all, check, overwrite, preserve, remove, dbs, keep_fonts, wrap) ==
    [update |-> update, all |-> all \/ check, check |-> check, overwrite |-> overwrite,
     preserve_fields |-> preserve, remove_fields |-> remove,
     keep_fonts |-> keep_fonts, wrap |-> wrap,
     ams_databases |-> IF update \notin {"all", "arxiv"} /\ update # "ams"
                       THEN <<update>> ELSE dbs]

UpdateChoices == {"all", "arxiv", "ams", "mrlookup", "mref", "mathscinet"}

\* the options of a run of main: preserve-fields is empty or holds year,
\* remove-fields, keep-fonts and wrap keep their defaults
OptionSpace ==
    {set_user_options(u, a, c, o, p, {}, d, FALSE, 0) :
        u \in UpdateChoices, a \in BOOLEAN, c \in BOOLEAN, o \in BOOLEAN,
        p \in {{}, {"year"}}, d \in AmsDatabases}

(***************************************************************************)
(* The run of main                                                         *)
(***************************************************************************)
NoBibtex == Bibtex(Unparsed(<< >>), [all |-> FALSE])

NoCall == [method |-> "", before |-> NoBibtex, requested |-> FALSE, connected |-> FALSE,
           web |-> << >>, matches |-> << >>, ret |-> FALSE]

NoError == [msg |-> "", url |-> ""]

\* the titles of the entries of a run of main are not empty, where the
\* releases of fuzzywuzzy agree: the run is made without fuzzywuzzy or with
\* the later release
Init ==
    /\ bibtexfile = << >>
    /\ newbibfile = << >>
    /\ reread = << >>
    /\ options \in OptionSpace
    /\ fuzzywuzzy \in {"ImportError", "fuzz 0.18"}
    /\ papers \in SeqsUpTo(InputEntries, MaxPapers)
    /\ pc = "start"
    /\ idx = 0
    /\ bt = NoBibtex
    /\ db = 0
    /\ out = << >>
    /\ log = << >>
    /\ requests = << >>
    /\ call = NoCall
    /\ status = -1
    /\ err = NoError

\* an uncaught exception: the except hook prints the traceback, exit status 1
Crash(exception) ==
    /\ pc' = "exit"
    /\ status' = 1
    /\ err' = [msg |-> exception, url |-> ""]

\* bib_error('unable to connect to %s' % url): the message, exit status 2
bib_error(url) ==
    /\ pc' = "exit"
    /\ status' = 2
    /\ err' = [msg |-> "unable to connect to", url |-> url]

\* main up to the loop, on a file given by its entries: papers.index('@')
\* raises ValueError when the file has no '@', hence no entry, options.filename raises AttributeError when the file is to be
\* overwritten; otherwise the new file is opened unless this is a check
Start ==
    /\ pc = "start"
    /\ IF papers = << >> THEN Crash("ValueError")
       ELSE IF ~options.check /\ options.overwrite THEN Crash("AttributeError")
       ELSE pc' = "next" /\ UNCHANGED <<status, err>>
    /\ idx' = 1
    /\ UNCHANGED <<bibtexfile, newbibfile, reread, options, fuzzywuzzy, papers, bt, db, out, log, requests, call>>

\* the head of the loop: the next entry becomes a Bibtex object, and an entry
\* with a valid type goes to the update method that options.update names
NextRecord ==
    /\ pc = "next"
    /\ idx <= Len(papers)
    /\ bt' = Bibtex(papers[idx], options)
    /\ db' = 0
    /\ log' = << >>
    /\ requests' = << >>
    /\ call' = NoCall
    /\ IF ~has_valid_pub_type(bt') THEN pc' = "write" /\ UNCHANGED <<status, err>>
       ELSE IF options.update = "mref" THEN Crash("AttributeError")
       ELSE /\ pc' = IF options.update = "all" THEN "arxiv" ELSE options.update
            /\ UNCHANGED <<status, err>>
    /\ UNCHANGED <<bibtexfile, newbibfile, reread, options, fuzzywuzzy, papers, idx, out>>

\* the exceptions raised because url_lookup could not connect
ConnectErrors == {"IOError", "IOError, NameError"}

\* the effect of a call of an update method on the record, the requests (each
\* with whether it gave a unique match), the messages and the run; the IOError
\* of update_entry is caught and ends the run through bib_error
Called(method, r, continue) ==
    /\ bt' = r.self
    /\ requests' = requests \o [i \in DOMAIN r.req |-> [url |-> r.req[i], found |-> r.ret]]
    /\ log' = log \o r.msgs
    /\ call' = [method |-> method, before |-> bt, requested |-> r.req # << >>,
                connected |-> r.req # << >> /\ r.exit \notin ConnectErrors,
                web |-> r.web, matches |-> r.matches, ret |-> r.ret]
    /\ IF r.exit = "" THEN pc' = continue /\ UNCHANGED <<status, err>>
       ELSE IF r.exit = "IOError" THEN bib_error(r.req[1])
       ELSE Crash(r.exit)

\* update_arxiv, called by main or first by update_all
UpdateArxiv ==
    /\ pc = "arxiv"
    /\ \E resp \in ArxivResponses :
           Called("arxiv", update_arxiv(bt, resp, options, fuzzywuzzy),
                  IF options.update = "all" THEN "ams" ELSE "write")
    /\ UNCHANGED <<bibtexfile, newbibfile, reread, options, fuzzywuzzy, papers, idx, db, out>>

\* update_mrlookup, called by main
UpdateMrlookup ==
    /\ pc = "mrlookup"
    /\ \E resp \in Responses :
           Called("mrlookup", update_mrlookup(bt, resp, options, fuzzywuzzy), "write")
    /\ UNCHANGED <<bibtexfile, newbibfile, reread, options, fuzzywuzzy, papers, idx, db, out>>

\* update_mathscinet, called by main
UpdateMathscinet ==
    /\ pc = "mathscinet"
    /\ \E resp \in Responses :
           Called("mathscinet", update_mathscinet(bt, resp, options, fuzzywuzzy), "write")
    /\ UNCHANGED <<bibtexfile, newbibfile, reread, options, fuzzywuzzy, papers, idx, db, out>>

\* self.needs_ams=getattr(self, 'update_'+...)()
set_needs_ams(r) == [r EXCEPT !.self.needs_ams = r.ret]

\* a loop body without db+=1
UpdateAms_same_db ==
    /\ pc = "ams"
    /\ bt.needs_ams /\ db < Len(options.ams_databases)
    /\ \E resp \in Responses :
           Called(options.ams_databases[db + 1],
                  set_needs_ams(update_method(options.ams_databases[db + 1], bt, resp,
                                              options, fuzzywuzzy)),
                  "ams")
    /\ db' = db
    /\ UNCHANGED <<bibtexfile, newbibfile, reread, options, fuzzywuzzy, papers, idx, out>>

\* one turn of the loop of update_ams: the next database method is called and
\* what it returns becomes needs_ams
UpdateAms ==
    /\ pc = "ams"
    /\ bt.needs_ams /\ db < Len(options.ams_databases)
    /\ \E resp \in Responses :
           Called(options.ams_databases[db + 1],
                  set_needs_ams(update_method(options.ams_databases[db + 1], bt, resp,
                                              options, fuzzywuzzy)),
                  "ams")
    /\ db' = db + 1
    /\ UNCHANGED <<bibtexfile, newbibfile, reread, options, fuzzywuzzy, papers, idx, out>>

\* the loop of update_ams ends
UpdateAmsEnd ==
    /\ pc = "ams"
    /\ ~(bt.needs_ams /\ db < Len(options.ams_databases))
    /\ pc' = "write"
    /\ UNCHANGED <<bibtexfile, newbibfile, reread, options, fuzzywuzzy, papers, idx, bt, db, out, log, requests, call,
                   status, err>>

\* the end of the loop body: the entry is written unless this is a check
WriteEntry ==
    /\ pc = "write"
    /\ out' = IF options.check THEN out ELSE Append(out, Bibtex_str(bt, options))
    /\ idx' = idx + 1
    /\ pc' = "next"
    /\ UNCHANGED <<bibtexfile, newbibfile, reread, options, fuzzywuzzy, papers, bt, db, log, requests, call, status, err>>

\* the loop is over: the new file is closed and main returns
Finish ==
    /\ pc = "next"
    /\ idx > Len(papers)
    /\ pc' = "done"
    /\ status' = 0
    /\ UNCHANGED <<bibtexfile, newbibfile, reread, options, fuzzywuzzy, papers, idx, bt, db, out, log, requests, call, err>>

Next ==
    \/ Start
    \/ NextRecord
    \/ UpdateArxiv
    \/ UpdateMrlookup
    \/ UpdateMathscinet
    \/ UpdateAms
    \/ UpdateAmsEnd
    \/ WriteEntry
    \/ Finish

Spec == Init /\ [][Next]_vars

(***************************************************************************)
(* define_search_dictionary on its own                                     *)
(***************************************************************************)
\* the values of pages: '101--150', '42', '12-34', 'to appear', 'To Appear', 'preprint', 'in preparation', 'xii', '7-'
PagesValues ==
    { <<"1", "0", "1", "-", "-", "1", "5", "0">>,
      <<"4", "2">>,
      <<"1", "2", "-", "3", "4">>,
      <<"t", "o", " ", "a", "p", "p", "e", "a", "r">>,
      <<"T", "o", " ", "A", "p", "p", "e", "a", "r">>,
      <<"p", "r", "e", "p", "r", "i", "n", "t">>,
      <<"i", "n", " ", "p", "r", "e", "p", "a", "r", "a", "t", "i", "o", "n">>,
      <<"x", "i", "i">>,
      <<"7", "-">> }

\* the values of author: 'A B', 'Li' and 'J Li and De Mor, A'
AuthorValues ==
    { <<"A", " ", "B">>,
      <<"L", "i">>,
      <<"J", " ", "L", "i", " ", "a", "n", "d", " ", "D", "e", " ", "M", "o", "r", ",", " ", "A">> }

\* the values of title: 'A', 'A_$x$', '$x$' and ''
TitleValues == { <<"A">>, <<"A", "_", "$", "x", "$">>, <<"$", "x", "$">>, << >> }

\* no field, or the field key with one of the values
OptField(key, values) == {<< >>} \cup {<<Field(key, v)>> : v \in values}

SearchEntries ==
    {Entry(t, "key", a \o ti \o y \o p \o j \o jj \o m) :
        t \in {"article", "book", "misc"},
        a \in OptField("author", AuthorValues),
        ti \in OptField("title", TitleValues),
        y \in OptField("year", {<<"2">>}),
        p \in OptField("pages", PagesValues),
        j \in OptField("journal", {<<"X">>}),
        jj \in OptField("jounral", {<<"X">>}),
        m \in OptField("mrnumber", {<<"7">>})}

\* Bibtex.__init__ has stored the fields and is about to call
\* define_search_dictionary
SearchInit ==
    /\ bibtexfile = << >>
    /\ newbibfile = << >>
    /\ reread = << >>
    /\ options \in {set_user_options("all", a, FALSE, FALSE, {}, {}, DefaultAmsDatabases, FALSE, 0) :
                       a \in BOOLEAN}
    /\ fuzzywuzzy = "fuzz 0.18"
    /\ papers = << >>
    /\ pc = "define"
    /\ idx = 0
    /\ bt \in {new_Bibtex(e) : e \in SearchEntries}
    /\ db = 0
    /\ out = << >>
    /\ log = << >>
    /\ requests = << >>
    /\ call = NoCall
    /\ status = -1
    /\ err = NoError

DefineSearch ==
    /\ pc = "define"
    /\ bt' = define_search_dictionary(bt, options)
    /\ pc' = "defined"
    /\ UNCHANGED <<bibtexfile, newbibfile, reread, options, fuzzywuzzy, papers, idx, db, out, log, requests, call, status, err>>

SearchNext == DefineSearch

SpecSearch == SearchInit /\ [][SearchNext]_vars

(***************************************************************************)
(* update_entry on its own                                                 *)
(***************************************************************************)
\* @comment{MR0, title={A}}: an entry without a valid publication type
MR0 == Entry("comment", "MR0", <<Field("title", <<"A">>)>>)

\* @article{anon, author={S}, year={2}}: a record without a title
anon == Entry("article", "anon", <<Field("author", <<"S">>), Field("year", <<"2">>)>>)

EntryInputs == {fred, weyl, qsa, anon}

EntryWebEntries == {MR0, MR1, MR2, MR3}

EntryResponses ==
    {[ok |-> FALSE, entries |-> << >>]}
    \cup {[ok |-> TRUE, entries |-> e] : e \in SeqsUpTo(EntryWebEntries, MaxCands)}

EntryOptionSpace ==
    {set_user_options("mrlookup", FALSE, c, FALSE, p, r, DefaultAmsDatabases, FALSE, 0) :
        c \in BOOLEAN, p \in {{}, {"year"}}, r \in {{}, {"journal"}, {"year"}}}

\* a Bibtex object has been built and update_entry is about to be called on it
EntryInit ==
    /\ bibtexfile = << >>
    /\ newbibfile = << >>
    /\ reread = << >>
    /\ options \in EntryOptionSpace
    /\ fuzzywuzzy \in fuzzywuzzy_imports
    /\ papers \in {<<e>> : e \in EntryInputs}
    /\ pc = "entry"
    /\ idx = 1
    /\ bt = Bibtex(papers[1], options)
    /\ db = 0
    /\ out = << >>
    /\ log = << >>
    /\ requests = << >>
    /\ call = NoCall
    /\ status = -1
    /\ err = NoError

UpdateEntry ==
    /\ pc = "entry"
    /\ \E resp \in EntryResponses :
           Called("update_entry", lookup_entry(bt, mrlookup_url, resp, options, fuzzywuzzy),
                  "returned")
    /\ UNCHANGED <<bibtexfile, newbibfile, reread, options, fuzzywuzzy, papers, idx, db, out>>

EntryNext == UpdateEntry

SpecEntry == EntryInit /\ [][EntryNext]_vars

(***************************************************************************)
(* One call of update_ams                                                  *)
(***************************************************************************)
\* the lists ams-databases of .bibupdaterc: those of a run of main, a list
\* that names a database twice and the empty name of 'ams-databases ='
AmsLists == AmsDatabases \cup {<<"mrlookup", "mrlookup">>, <<"">>}

AmsOptionSpace ==
    {set_user_options("ams", a, c, FALSE, {}, {}, d, FALSE, 0) :
        a \in BOOLEAN, c \in BOOLEAN, d \in AmsLists}

\* a Bibtex object has been built and update_ams is about to be called on
\* it: db=0
AmsInit ==
    /\ bibtexfile = << >>
    /\ newbibfile = << >>
    /\ reread = << >>
    /\ options \in AmsOptionSpace
    /\ fuzzywuzzy \in {"ImportError", "fuzz 0.18"}
    /\ papers \in {<<e>> : e \in {fred, weyl, phd}}
    /\ pc = "ams"
    /\ idx = 1
    /\ bt = Bibtex(papers[1], options)
    /\ db = 0
    /\ out = << >>
    /\ log = << >>
    /\ requests = << >>
    /\ call = NoCall
    /\ status = -1
    /\ err = NoError

AmsNext == UpdateAms \/ UpdateAmsEnd

\* the loop runs on: a database method returns or raises
SpecAms == AmsInit /\ [][AmsNext]_vars /\ WF_vars(AmsNext)

(***************************************************************************)
(* The text of an entry: the regular expressions that split a bibtex file  *)
(* into entries and an entry into its type, key and fields, and the        *)
(* printing of an entry.  A text is a sequence of characters.              *)
(***************************************************************************)
\* a string as a sequence of characters, and a sequence of characters as a
\* string
chars(s) == [i \in 1..Len(s) |-> SubSeq(s, i, i)]

RECURSIVE str(_)
str(q) == IF q = << >> THEN "" ELSE Head(q) \o str(Tail(q))

\* str.upper()
upper(s) ==
    [i \in DOMAIN s |->
        IF \E j \in DOMAIN LowerChars : LowerChars[j] = s[i]
        THEN UpperChars[CHOOSE j \in DOMAIN LowerChars : LowerChars[j] = s[i]]
        ELSE s[i]]

\* the greatest index of the character c in s, 0 when s has no c
LastIndex(s, c) ==
    IF \E i \in DOMAIN s : s[i] = c
    THEN CHOOSE i \in DOMAIN s : s[i] = c /\ \A j \in (i + 1)..Len(s) : s[j] # c
    ELSE 0

\* the least index from i on at which s has a character of C, Len(s) + 1
\* when there is none
NextIndex(s, i, C) == i + RunLenNot(s, i, C)

Max(S) == CHOOSE x \in S : \A y \in S : y <= x

\* bibtex_entry, matched at the '@' at s[p]: '@', spaces, letters, spaces,
\* '{', then everything up to the last '}' before the next '@', and the
\* spaces that follow.  The result is the index after the match, 0 when
\* there is no match at p.
bibtex_entry_brace(s, p) ==
    LET a == p + 1 + RunLen(s, p + 1, Whitespace)
        b == a + RunLen(s, a, Letters)
    IN b + RunLen(s, b, Whitespace)

bibtex_entry_close(s, b) ==
    LET close == {r \in (b + 1)..(NextIndex(s, b + 1, {"@"}) - 1) : s[r] = "}"}
    IN IF close = {} THEN 0 ELSE Max(close)

bibtex_entry_at(s, p) ==
    LET b == bibtex_entry_brace(s, p)
    IN IF b > Len(s) \/ s[b] # "{" \/ bibtex_entry_close(s, b) = 0 THEN 0
       ELSE bibtex_entry_close(s, b) + 1
            + RunLen(s, bibtex_entry_close(s, b) + 1, Whitespace)

\* bibtex_entry.finditer(s): the texts matched (group 0), from s[i] on
RECURSIVE finditer_from(_, _)
finditer_from(s, i) ==
    IF i > Len(s) THEN << >>
    ELSE IF s[i] # "@" \/ bibtex_entry_at(s, i) = 0 THEN finditer_from(s, i + 1)
    ELSE <<SubSeq(s, i, bibtex_entry_at(s, i) - 1)>>
         \o finditer_from(s, bibtex_entry_at(s, i))

finditer(s) == finditer_from(s, 1)

\* parse_bibtex_entry, matched at the '@' at s[p]: the letters of pub_type,
\* spaces, '{', spaces, then cite_key is the longest run of non-space
\* characters that leaves a ',' (after spaces, when the whole run is taken)
\* with a '}' somewhere behind it; keys_and_vals is everything from that ','
\* to the last '}' of s
parse_key_start(s, p) ==
    LET t == p + 1 + RunLen(s, p + 1, Letters)
        b == t + RunLen(s, t, Whitespace)
    IN IF b > Len(s) \/ s[b] # "{" THEN 0
       ELSE b + 1 + RunLen(s, b + 1, Whitespace)

parse_commas(s, q1) ==
    LET q2 == q1 + RunLenNot(s, q1, Whitespace)
        q3 == q2 + RunLen(s, q2, Whitespace)
    IN {c \in (q1..(q2 - 1)) \cup {q3} :
            c <= Len(s) /\ s[c] = "," /\ LastIndex(s, "}") > c}

parse_bibtex_entry_at(s, p) ==
    LET q1 == parse_key_start(s, p)
    IN IF q1 = 0 \/ parse_commas(s, q1) = {}
       THEN [found |-> FALSE, pub_type |-> << >>, cite_key |-> << >>,
             keys_and_vals |-> << >>]
       ELSE [found |-> TRUE,
             pub_type |-> SubSeq(s, p + 1, p + RunLen(s, p + 1, Letters)),
             cite_key |-> SubSeq(s, q1, Min(Max(parse_commas(s, q1)),
                                            q1 + RunLenNot(s, q1, Whitespace)) - 1),
             keys_and_vals |-> SubSeq(s, Max(parse_commas(s, q1)) + 1,
                                      LastIndex(s, "}") - 1)]

\* parse_bibtex_entry.search(s): the match at the first '@' that has one
parse_bibtex_entry(s) ==
    LET starts == {p \in DOMAIN s : s[p] = "@" /\ parse_bibtex_entry_at(s, p).found}
    IN IF starts = {}
       THEN [found |-> FALSE, pub_type |-> << >>, cite_key |-> << >>,
             keys_and_vals |-> << >>]
       ELSE parse_bibtex_entry_at(s, CHOOSE p \in starts : \A q \in starts : p <= q)

\* despace_equals.sub('=', s): the spaces around every '=' are removed
RECURSIVE despace_from(_, _)
despace_from(s, i) ==
    IF i > Len(s) THEN << >>
    ELSE LET e == i + RunLen(s, i, Whitespace)
         IN IF e <= Len(s) /\ s[e] = "="
            THEN <<"=">> \o despace_from(s, e + 1 + RunLen(s, e + 1, Whitespace))
            ELSE <<s[i]>> \o despace_from(s, i + 1)

despace_equals(s) == despace_from(s, 1)

\* keys_and_vals at a key whose '=' is at s[a]: the value in braces runs to
\* the last '}' before the next '={', and a value without braces is a word.
\* The result is [found, val, word, end].
braced_close(s, a) ==
    LET stop == CHOOSE m \in (a + 2)..(Len(s) + 1) :
                    /\ m <= Len(s) => (s[m] = "=" /\ m < Len(s) /\ s[m + 1] = "{")
                    /\ \A j \in (a + 2)..(m - 1) :
                           ~(s[j] = "=" /\ j < Len(s) /\ s[j + 1] = "{")
        close == {r \in (a + 3)..(stop - 1) : s[r] = "}"}
    IN IF close = {} THEN 0 ELSE Max(close)

keys_and_vals_at(s, a) ==
    IF a < Len(s) /\ s[a + 1] = "{" /\ braced_close(s, a) > 0
    THEN [found |-> TRUE, val |-> SubSeq(s, a + 2, braced_close(s, a) - 1),
          word |-> << >>, end |-> braced_close(s, a) + 1]
    ELSE IF a < Len(s) /\ s[a + 1] \in WordChars
    THEN [found |-> TRUE, val |-> << >>,
          word |-> SubSeq(s, a + 1, a + RunLen(s, a + 1, WordChars)),
          end |-> a + 1 + RunLen(s, a + 1, WordChars)]
    ELSE [found |-> FALSE, val |-> << >>, word |-> << >>, end |-> 0]

\* keys_and_vals.findall(s): the triples (key, val, word), from s[i] on
RECURSIVE findall_from(_, _)
findall_from(s, i) ==
    IF i > Len(s) THEN << >>
    ELSE LET a == i + RunLen(s, i, Letters)
         IN IF a = i \/ a > Len(s) \/ s[a] # "=" \/ ~keys_and_vals_at(s, a).found
            THEN findall_from(s, i + 1)
            ELSE <<[key |-> SubSeq(s, i, a - 1), val |-> keys_and_vals_at(s, a).val,
                    word |-> keys_and_vals_at(s, a).word]>>
                 \o findall_from(s, keys_and_vals_at(s, a).end)

keys_and_vals(s) == findall_from(s, 1)

\* ' '.join(val.split()): the words of val, one space between them
RECURSIVE join_split(_)
join_split(val) ==
    LET t == strip(val)
        n == RunLenNot(t, 1, Whitespace)
    IN IF n = Len(t) THEN t
       ELSE SubSeq(t, 1, n) \o <<" ">> \o join_split(SubSeq(t, n + 1, Len(t)))

\* fonts of which one is replaced by another font of the list
fonts_to_replace_chained ==
    <<[old |-> <<"B", "b", "b">>, new |-> <<"g", "e", "r", "m">>],
      [old |-> <<"s", "c", "r">>, new |-> <<"m", "a", "t", "h", "c", "a", "l">>],
      [old |-> <<"g", "e", "r", "m">>,
       new |-> <<"m", "a", "t", "h", "f", "r", "a", "k">>]>>

\* the fonts that replace_fonts rewrites
fonts_to_replace ==
    <<[old |-> <<"B", "b", "b">>, new |-> <<"m", "a", "t", "h", "b", "b">>],
      [old |-> <<"s", "c", "r">>, new |-> <<"m", "a", "t", "h", "c", "a", "l">>],
      [old |-> <<"g", "e", "r", "m">>,
       new |-> <<"m", "a", "t", "h", "f", "r", "a", "k">>]>>

\* font_replacer, matched at s[i]: a backslash, one of the old fonts, spaces,
\* and then one word character or a group of spaces and word characters in
\* braces.  The result is [found, font, arg, end].
font_replacer_at(s, i) ==
    LET fs == {f \in DOMAIN fonts_to_replace :
                  /\ i + Len(fonts_to_replace[f].old) <= Len(s)
                  /\ SubSeq(s, i + 1, i + Len(fonts_to_replace[f].old))
                     = fonts_to_replace[f].old}
        f == CHOOSE f \in fs : TRUE
        e == i + 1 + Len(fonts_to_replace[f].old)
        w == e + RunLen(s, e, Whitespace)
        z == w + 1 + RunLen(s, w + 1, Whitespace \cup WordChars)
    IN IF s[i] # "\\" \/ fs = {} \/ w > Len(s)
       THEN [found |-> FALSE, font |-> 0, arg |-> << >>, end |-> 0]
       ELSE IF s[w] \in WordChars
       THEN [found |-> TRUE, font |-> f, arg |-> <<s[w]>>, end |-> w + 1]
       ELSE IF s[w] = "{" /\ z <= Len(s) /\ s[z] = "}"
       THEN [found |-> TRUE, font |-> f, arg |-> SubSeq(s, w + 1, z - 1), end |-> z + 1]
       ELSE [found |-> FALSE, font |-> 0, arg |-> << >>, end |-> 0]

\* replace_fonts: every match of font_replacer becomes \new{arg}
RECURSIVE replace_fonts_from(_, _)
replace_fonts_from(s, i) ==
    IF i > Len(s) THEN << >>
    ELSE LET m == font_replacer_at(s, i)
         IN IF m.found
            THEN <<"\\">> \o fonts_to_replace[m.font].new \o <<"{">> \o m.arg \o <<"}">>
                 \o replace_fonts_from(s, m.end)
            ELSE <<s[i]>> \o replace_fonts_from(s, i + 1)

replace_fonts(s) == replace_fonts_from(s, 1)

\* the value of a triple of keys_and_vals: the word, or the value in braces
\* without its extra spaces
triple_value(t) == IF t.val = << >> THEN t.word ELSE join_split(t.val)

\* bibup.fix_fonts: replace_fonts unless keep_fonts is set
fix_fonts(title, keep_fonts) == IF keep_fonts THEN title ELSE replace_fonts(title)

\* the loop of Bibtex.__init__ over the triples of keys_and_vals: the key is
\* put in lower case and the fonts of the title are fixed
RECURSIVE set_fields(_, _, _)
set_fields(fields, triples, keep_fonts) ==
    IF triples = << >> THEN fields
    ELSE set_fields(
             Put(fields, str(lower(Head(triples).key)),
                 IF str(lower(Head(triples).key)) = "title"
                 THEN fix_fonts(triple_value(Head(triples)), keep_fonts)
                 ELSE triple_value(Head(triples))),
             Tail(triples), keep_fonts)

\* Bibtex.__init__ up to define_search_dictionary, on the text of an entry
read_entry(bib_string, opts) ==
    LET entry == parse_bibtex_entry(bib_string)
    IN IF ~entry.found THEN Unparsed(bib_string)
       ELSE Entry(str(lower(strip(entry.pub_type))), str(strip(entry.cite_key)),
                  set_fields(<< >>, keys_and_vals(despace_equals(entry.keys_and_vals)),
                             opts.keep_fonts))

\* textwrap.wrap: a text without hyphens is cut into its words and its runs of
\* spaces
RECURSIVE wrap_chunks(_)
wrap_chunks(t) ==
    IF t = << >> THEN << >>
    ELSE LET n == IF t[1] \in Whitespace THEN RunLen(t, 1, Whitespace)
                  ELSE RunLenNot(t, 1, Whitespace)
         IN <<[i \in 1..n |-> IF t[i] \in Whitespace THEN " " ELSE t[i]]>>
            \o wrap_chunks(SubSeq(t, n + 1, Len(t)))

RECURSIVE flatten(_)
flatten(cs) == IF cs = << >> THEN << >> ELSE Head(cs) \o flatten(Tail(cs))

\* the number of leading chunks that fit into room characters
RECURSIVE fit(_, _)
fit(cs, room) ==
    IF cs = << >> \/ Len(Head(cs)) > room THEN 0
    ELSE 1 + fit(Tail(cs), room - Len(Head(cs)))

\* one line of at most width characters: the chunks that fit and, when the
\* next chunk is longer than a line, as much of it as there is room for
\* (one character when the line has no room at all)
wrap_line(cs, width, n) ==
    LET left == IF width < 1 THEN 1 ELSE width - Len(flatten(SubSeq(cs, 1, n)))
    IN IF n < Len(cs) /\ Len(cs[n + 1]) > width
       THEN [cur |-> Append(SubSeq(cs, 1, n), SubSeq(cs[n + 1], 1, left)),
             rest |-> <<SubSeq(cs[n + 1], left + 1, Len(cs[n + 1]))>>
                      \o SubSeq(cs, n + 2, Len(cs))]
       ELSE [cur |-> SubSeq(cs, 1, n), rest |-> SubSeq(cs, n + 1, Len(cs))]

\* a chunk of spaces at the end of a line is dropped
drop_space(cur) ==
    IF cur # << >> /\ strip(cur[Len(cur)]) = << >> THEN SubSeq(cur, 1, Len(cur) - 1)
    ELSE cur

\* the lines of textwrap.wrap(field, wrap, subsequent_indent='\t'); first holds
\* until a line has been made
RECURSIVE wrap_lines(_, _, _)
wrap_from(cs, wrap, first, line) ==
    (IF drop_space(line.cur) = << >> THEN << >>
     ELSE <<(IF first THEN << >> ELSE <<"\t">>) \o flatten(drop_space(line.cur))>>)
    \o wrap_lines(line.rest, wrap, first /\ drop_space(line.cur) = << >>)

wrap_lines(cs, wrap, first) ==
    IF cs = << >> THEN << >>
    ELSE IF ~first /\ strip(Head(cs)) = << >>
    THEN IF Tail(cs) = << >> THEN << >>
         ELSE wrap_from(Tail(cs), wrap, first,
                        wrap_line(Tail(cs), wrap - 1, fit(Tail(cs), wrap - 1)))
    ELSE wrap_from(cs, wrap, first,
                   wrap_line(cs, IF first THEN wrap ELSE wrap - 1,
                             fit(cs, IF first THEN wrap ELSE wrap - 1)))

RECURSIVE join_lines(_)
join_lines(lines) ==
    IF lines = << >> THEN << >>
    ELSE IF Len(lines) = 1 THEN lines[1]
    ELSE Head(lines) \o <<"\n">> \o join_lines(Tail(lines))

\* bibup.wrapped: the field as it is when wrap is 0
wrapped(field, wrap) ==
    IF wrap = 0 THEN field ELSE join_lines(wrap_lines(wrap_chunks(field), wrap, TRUE))

\* ',\n  '.join('%s = {%s}' % (key, bibup.wrapped(self[key])) ...)
RECURSIVE join_fields(_, _)
join_fields(fields, wrap) ==
    IF fields = << >> THEN << >>
    ELSE chars(Head(fields).k) \o <<" ", "=", " ", "{">> \o wrapped(Head(fields).v, wrap)
         \o <<"}">>
         \o (IF Tail(fields) = << >> THEN << >>
             ELSE <<",", "\n", " ", " ">> \o join_fields(Tail(fields), wrap))

\* a __str__ that prints the type, the key and the fields of every record
Bibtex_text_formatted(self, opts) ==
    <<"@">> \o upper(chars(self.pub_type)) \o <<"{">> \o chars(self.cite_key)
    \o <<",", "\n", " ", " ">>
    \o join_fields(Bibtex_str(self, opts).fields, opts.wrap)
    \o <<"\n", "}">>

\* '%s' % bt: the text of Bibtex.__str__
Bibtex_text(self, opts) ==
    IF ~self.parsed THEN self.bib_string
    ELSE <<"@">> \o upper(chars(self.pub_type)) \o <<"{">> \o chars(self.cite_key)
         \o <<",", "\n", " ", " ">>
         \o join_fields(Bibtex_str(self, opts).fields, opts.wrap)
         \o <<"\n", "}">>

(***************************************************************************)
(* The run of main on the text of a file                                   *)
(***************************************************************************)
\* group 1 of a match of bibtex_entry: the match without the spaces behind
\* its last '}'
bibtex_entry_group1(m) == SubSeq(m, 1, LastIndex(m, "}"))

\* the entries of the page that a lookup returns, as update_entry builds them
web_page(page, opts) ==
    [i \in DOMAIN finditer(page) |->
        read_entry(bibtex_entry_group1(finditer(page)[i]), opts)]

\* the pages that mrlookup returns in the runs on a text
TextPages ==
    {chars(""),
     chars("@article {MR8,\n AUTHOR = {X},\n TITLE = {A},\n YEAR = {3},\n}\n")}

TextResponses(opts) ==
    {[ok |-> FALSE, entries |-> << >>]}
    \cup {[ok |-> TRUE, entries |-> web_page(page, opts)] : page \in TextPages}

\* papers.index('@'), 0 when it raises ValueError
asterisk(text) ==
    IF \E i \in DOMAIN text : text[i] = "@"
    THEN CHOOSE i \in DOMAIN text : text[i] = "@" /\ \A j \in 1..(i - 1) : text[j] # "@"
    ELSE 0

\* main up to the loop, on the text of the file: the new file gets the text
\* before the first '@' unless this is a check
ReadFile ==
    /\ pc = "start"
    /\ IF asterisk(bibtexfile) = 0
       THEN Crash("ValueError") /\ UNCHANGED <<newbibfile, papers>>
       ELSE IF ~options.check /\ options.overwrite
       THEN Crash("AttributeError") /\ UNCHANGED <<newbibfile, papers>>
       ELSE /\ pc' = "next"
            /\ newbibfile' = IF options.check THEN newbibfile
                             ELSE SubSeq(bibtexfile, 1, asterisk(bibtexfile) - 1)
            /\ papers' = finditer(SubSeq(bibtexfile, asterisk(bibtexfile), Len(bibtexfile)))
            /\ UNCHANGED <<status, err>>
    /\ idx' = 1
    /\ UNCHANGED <<bibtexfile, reread, options, fuzzywuzzy, bt, db, out, log, requests, call>>

\* the head of the loop on the text of an entry
ReadRecord ==
    /\ pc = "next"
    /\ idx <= Len(papers)
    /\ bt' = Bibtex(read_entry(papers[idx], options), options)
    /\ db' = 0
    /\ log' = << >>
    /\ requests' = << >>
    /\ call' = NoCall
    /\ IF ~has_valid_pub_type(bt') THEN pc' = "write" /\ UNCHANGED <<status, err>>
       ELSE IF options.update = "mref" THEN Crash("AttributeError")
       ELSE /\ pc' = IF options.update = "all" THEN "arxiv" ELSE options.update
            /\ UNCHANGED <<status, err>>
    /\ UNCHANGED <<bibtexfile, newbibfile, reread, options, fuzzywuzzy, papers, idx, out>>

\* update_mrlookup, called by main, on the text of the page returned
UpdateMrlookupText ==
    /\ pc = "mrlookup"
    /\ \E resp \in TextResponses(options) :
           Called("mrlookup", update_mrlookup(bt, resp, options, fuzzywuzzy), "write")
    /\ UNCHANGED <<bibtexfile, newbibfile, reread, options, fuzzywuzzy, papers, idx, db, out>>

\* the end of the loop body: newbibfile.write('%s\n\n' % bt) unless this is a
\* check
WriteText ==
    /\ pc = "write"
    /\ out' = IF options.check THEN out ELSE Append(out, Bibtex_str(bt, options))
    /\ newbibfile' = IF options.check THEN newbibfile
                     ELSE newbibfile \o Bibtex_text(bt, options) \o <<"\n", "\n">>
    /\ idx' = idx + 1
    /\ pc' = "next"
    /\ UNCHANGED <<bibtexfile, reread, options, fuzzywuzzy, papers, bt, db, log, requests, call,
                   status, err>>

\* the records that main builds when it is run on the file it has written
read_file(text, opts) ==
    IF asterisk(text) = 0 THEN << >>
    ELSE [i \in DOMAIN finditer(SubSeq(text, asterisk(text), Len(text))) |->
             Bibtex(read_entry(finditer(SubSeq(text, asterisk(text), Len(text)))[i], opts),
                    opts)]

ReadBack ==
    /\ pc = "done"
    /\ ~options.check
    /\ reread' = read_file(newbibfile, options)
    /\ pc' = "read back"
    /\ UNCHANGED <<bibtexfile, newbibfile, options, fuzzywuzzy, papers, idx, bt, db, out, log,
                   requests, call, status, err>>

TextNext ==
    \/ ReadFile
    \/ ReadRecord
    \/ UpdateMrlookupText
    \/ WriteText
    \/ Finish
    \/ ReadBack

\* the widths given to --wrap: none, one that is shorter than a word, one that
\* holds a word
WrapWidths == {0, 1, 4}

RemoveFields == {{}, {"year"}}

\* the texts of one entry: a type, the key, up to two fields and the end
EntryTypes == {"article", "Book", "comment"}

EntryOpens == {"{k, ", " { k ,\n "}

EntryFields ==
    {"title={A}", "Title = {A  b}", "title={\\Bbb R}", "year=2", "note={ }", "title = {Ab cd}"}

SecondFields == {"year={2}", "TITLE={B}", "pages = {1--2} "}

EntryBodies ==
    {""} \cup EntryFields \cup {f \o ", " \o g : f \in {"title={A}", "year=2", "note={ }"},
                                                g \in SecondFields}

EntryCloses == {"}", " }\n"}

\* texts that bibtex_entry matches and parse_bibtex_entry does not, and texts
\* with an empty type or key
OtherTexts ==
    {"@comment{jabref-meta: x}", "@article{k}\n", "@ article{k, title={A}}", "@{k, title={A}}",
     "@article{, title={A}}", "@string{a = {b}}", "@article{k,title={A},year=2}"}

EntryTexts ==
    {chars("@" \o t \o o \o b \o c) :
         t \in EntryTypes, o \in EntryOpens, b \in EntryBodies, c \in EntryCloses}
    \cup {chars(t) : t \in OtherTexts}

ParseOptionSpace ==
    {set_user_options("mrlookup", FALSE, FALSE, FALSE, {}, remove, DefaultAmsDatabases,
                      keep_fonts, wrap) :
         remove \in RemoveFields, keep_fonts \in BOOLEAN, wrap \in WrapWidths}

TextInit(texts, opts, imports) ==
    /\ bibtexfile \in texts
    /\ newbibfile = << >>
    /\ reread = << >>
    /\ options \in opts
    /\ fuzzywuzzy \in imports
    /\ papers = << >>
    /\ pc = "start"
    /\ idx = 0
    /\ bt = NoBibtex
    /\ db = 0
    /\ out = << >>
    /\ log = << >>
    /\ requests = << >>
    /\ call = NoCall
    /\ status = -1
    /\ err = NoError

ParseInit == TextInit(EntryTexts, ParseOptionSpace, {"fuzz 0.18"})

\* main on a file with one entry
SpecParse == ParseInit /\ [][TextNext]_vars

\* the texts of a file: the text before the first entry, and the entries
Preambles == {"", "% refs\n"}

FileEntries ==
    {"@article{k, title={A}}\n", "@comment{x}\n\n", "@misc{m,\n note={n}\n}\n% c\n"}

RECURSIVE concat(_)
concat(ss) == IF ss = << >> THEN "" ELSE Head(ss) \o concat(Tail(ss))

Files ==
    {chars(pre \o concat(es)) : pre \in Preambles, es \in SeqsUpTo(FileEntries, MaxPapers)}

FileOptionSpace ==
    {set_user_options("mrlookup", FALSE, check, FALSE, {}, {}, DefaultAmsDatabases, FALSE, 0) :
         check \in BOOLEAN}

FileInit == TextInit(Files, FileOptionSpace, fuzzywuzzy_imports)

\* main on a file
SpecFile == FileInit /\ [][TextNext]_vars

(***************************************************************************)
(* replace_fonts on a string, and on what it returned                      *)
(***************************************************************************)
MaxPieces == 4

\* the strings given to replace_fonts: up to MaxPieces pieces, each a font
\* command, a font name, a backslash, a space, a brace or a letter
FontPieces == {"\\Bbb", "\\germ", "\\", "scr", " ", "{", "}", "R"}

FontStrings == {chars(concat(ps)) : ps \in SeqsUpTo(FontPieces, MaxPieces)}

FontsInit ==
    /\ bibtexfile = << >>
    /\ newbibfile = << >>
    /\ reread = << >>
    /\ options \in {set_user_options("all", FALSE, FALSE, FALSE, {}, {}, DefaultAmsDatabases,
                                     FALSE, 0)}
    /\ fuzzywuzzy = "ImportError"
    /\ \E s \in FontStrings : papers = <<s>>
    /\ pc = "fonts"
    /\ idx = 0
    /\ bt = NoBibtex
    /\ db = 0
    /\ out = << >>
    /\ log = << >>
    /\ requests = << >>
    /\ call = NoCall
    /\ status = -1
    /\ err = NoError

\* replace_fonts is called on the string, and then on the string it returned
ReplaceFonts ==
    /\ pc = "fonts"
    /\ Len(out) < 2
    /\ out' = Append(out, replace_fonts(IF out = << >> THEN papers[1] ELSE out[Len(out)]))
    /\ UNCHANGED <<bibtexfile, newbibfile, reread, options, fuzzywuzzy, papers, pc, idx, bt, db, log,
                   requests, call, status, err>>

FontsNext == ReplaceFonts

SpecFonts == FontsInit /\ [][FontsNext]_vars

(***************************************************************************)
(* clean_title and good_match on two titles                                *)
(***************************************************************************)
MaxTitleLen == 3

\* the titles: up to MaxTitleLen characters, letters of both cases and the
\* characters that clean_title removes
TitleChars == {"a", "B", "$", "{", "_", "\""}

Titles == SeqsUpTo(TitleChars, MaxTitleLen)

\* the titles a title is compared with: itself, itself in upper case, its
\* letters alone, and another title
OtherTitles(t) ==
    {t, upper(t), SelectSeq(t, LAMBDA c : c \in Letters), <<"a", "B">>}

MatchInit ==
    /\ bibtexfile = << >>
    /\ newbibfile = << >>
    /\ reread = << >>
    /\ options \in {set_user_options("all", FALSE, FALSE, FALSE, {}, {}, DefaultAmsDatabases,
                                     FALSE, 0)}
    /\ fuzzywuzzy \in fuzzywuzzy_imports
    /\ \E t \in Titles : \E u \in OtherTitles(t) : papers = <<t, u>>
    /\ pc = "titles"
    /\ idx = 0
    /\ bt = NoBibtex
    /\ db = 0
    /\ out = << >>
    /\ log = << >>
    /\ requests = << >>
    /\ call = NoCall
    /\ status = -1
    /\ err = NoError

\* clean_title on both titles
CleanTitles ==
    /\ pc = "titles"
    /\ out' = <<clean_title(papers[1]), clean_title(papers[2])>>
    /\ pc' = "cleaned"
    /\ UNCHANGED <<bibtexfile, newbibfile, reread, options, fuzzywuzzy, papers, idx, bt, db, log,
                   requests, call, status, err>>

\* good_match on the cleaned titles
GoodMatch ==
    /\ pc = "cleaned"
    /\ call' = [NoCall EXCEPT !.method = "good_match",
                              !.ret = good_match(fuzzywuzzy, out[1], out[2])]
    /\ pc' = "matched"
    /\ UNCHANGED <<bibtexfile, newbibfile, reread, options, fuzzywuzzy, papers, idx, bt, db, out,
                   log, requests, status, err>>

MatchNext == CleanTitles \/ GoodMatch

SpecMatch == MatchInit /\ [][MatchNext]_vars

(***************************************************************************)
(* Properties                                                              *)
(***************************************************************************)
\* the index in papers of the entry that bt was built from
Current == IF pc \in {"next", "done"} THEN idx - 1 ELSE idx

HasCurrent == bt # NoBibtex /\ Current \in DOMAIN papers

\* cand has the fields of orig with the same values and one field more
OneNewField(orig, cand) ==
    \E i \in DOMAIN cand :
        /\ ~Has(orig, cand[i].k)
        /\ Keys(cand) = Keys(orig) \cup {cand[i].k}
        /\ \A key \in Keys(orig) : Get(orig, key) = Get(cand, key)

NewField(orig, cand) == cand[CHOOSE i \in DOMAIN cand : ~Has(orig, cand[i].k)]

\* the fields that some message of the log lists
Reported == UNION {{log[i].diffs[j] : j \in DOMAIN log[i].diffs} : i \in DOMAIN log}

\* C1: outside check mode, when update_entry is left with one candidate that
\* has the fields of the record with the same values and one field more
\* (which is not preserved), the record afterwards has that field with the
\* value of the candidate, after its other fields, which are unchanged like
\* its citation key, and one field is reported.
C1_AddsMissingField ==
    ( /\ pc = "returned"
      /\ ~options.check
      /\ Len(call.matches) = 1
      /\ OneNewField(call.before.fields, call.matches[1].fields)
      /\ NewField(call.before.fields, call.matches[1].fields).k \notin options.preserve_fields )
    => /\ bt.cite_key = call.before.cite_key
       /\ bt.fields = Append(call.before.fields,
                             NewField(call.before.fields, call.matches[1].fields))
       /\ Cardinality(Reported) = 1

\* the entries of the page with a valid publication type whose cleaned title
\* is a good match for the cleaned title of the record
TitleMatches(self, web) ==
    {i \in DOMAIN web :
        /\ web[i].parsed
        /\ web[i].pub_type \in bibtex_pub_types
        /\ good_match(fuzzywuzzy, clean_title(Get(self.fields, "title")),
                      clean_title(Get(web[i].fields, "title")))}

\* C2: when the page holds two or more valid entries whose cleaned titles
\* match the cleaned title of the record, update_entry returns False and the
\* record (fields, citation key and entry type) is as it was before the call.
C2_AmbiguousLeavesRecord ==
    (pc = "returned" /\ Cardinality(TitleMatches(call.before, call.web)) >= 2)
    => ~call.ret /\ bt = call.before /\ bt.fields = papers[idx].fields

C2_Witness ==
    /\ pc = "returned"
    /\ call.connected
    /\ Cardinality(TitleMatches(call.before, call.web)) >= 2
    /\ Get(call.before.fields, "title") # << >>
    /\ ~call.ret

\* the fields of cand that are not preserved and whose value is not the one
\* the record has
Differing(orig, cand) ==
    SelectSeq(KeyList(cand), LAMBDA key :
        key \notin options.preserve_fields /\ Get(orig, key) # Get(cand, key))

\* the last call left one candidate, and it changes a value the record has
UniqueMatchChanges ==
    /\ call.connected
    /\ Len(call.matches) = 1
    /\ \E key \in Keys(call.matches[1].fields) :
           /\ key \notin options.preserve_fields
           /\ Get(call.before.fields, key) # << >>
           /\ Get(call.before.fields, key) # Get(call.matches[1].fields, key)

C4_StopsAtFirstMatch ==
    options.update = "ams" =>
        /\ \A i, j \in DOMAIN requests : i < j => ~requests[i].found
        /\ ( /\ pc = "write"
             /\ HasCurrent
             /\ Bibtex(papers[Current], options).needs_ams
             /\ \A i \in DOMAIN requests : ~requests[i].found )
           => db = Len(options.ams_databases)

\* C5: with the all option off, no request is issued for a record that has an
\* mrnumber field, whatever the update option.
C5_MrnumberNotLookedUp ==
    (~options.all /\ ~options.check /\ HasCurrent /\ Has(papers[Current].fields, "mrnumber"))
    => requests = << >>

\* C6: no request is issued for a record whose entry type is not article,
\* book, inproceedings or incollection.
C6_OtherTypesNotLookedUp ==
    (HasCurrent /\ papers[Current].pub_type \notin ams_pub_types) => requests = << >>

\* C7: outside check mode the i-th entry written is the i-th entry read, a
\* record is looked up only when the records before it have been written, and
\* whatever the lookups return the run ends with one entry written per entry
\* read.
C7_OneEntryPerRecord ==
    ~options.check =>
        /\ Len(out) <= Len(papers)
        /\ \A i \in DOMAIN out :
               /\ out[i].cite_key = papers[i].cite_key
               /\ out[i].text = papers[i].bib_string
        /\ pc \in {"arxiv", "ams", "mrlookup", "mathscinet"} => Len(out) = idx - 1
        /\ (pc \in {"done", "exit"} /\ call.requested /\ call.connected)
           => Len(out) = Len(papers)

\* C8: a request that fails to connect ends the run with exit status 2 and a
\* message that names the endpoint of the request.
C8_ConnectFailureExits2 ==
    (call.requested /\ ~call.connected) =>
        /\ pc = "exit"
        /\ status = 2
        /\ err = [msg |-> "unable to connect to", url |-> requests[Len(requests)].url]

\* pages of the form first page, hyphens, last page
PageRange(pages) ==
    /\ RunLen(pages, 1, Digits) >= 1
    /\ RunLen(pages, RunLen(pages, 1, Digits) + 1, {"-"}) >= 1
    /\ RunLenNot(pages, 1, Digits) = 0
    /\ \E z \in 1..Len(pages) :
           /\ \A i \in (Len(pages) + 1 - z)..Len(pages) : pages[i] \in Digits
           /\ \A i \in 1..(Len(pages) - z) : pages[i] \in Digits \cup {"-"}
           /\ pages[Len(pages) - z] = "-"
           /\ RunLen(pages, 1, Digits) + RunLen(pages, RunLen(pages, 1, Digits) + 1, {"-"}) + z
              = Len(pages)

FirstPage(pages) == SubSeq(pages, 1, RunLen(pages, 1, Digits))

LastPage(pages) ==
    SubSeq(pages, RunLen(pages, 1, Digits)
                  + RunLen(pages, RunLen(pages, 1, Digits) + 1, {"-"}) + 1, Len(pages))

Sentinel(fields) == Has(fields, "pages") /\ lower(Get(fields, "pages")) \in preprint_pages

\* C9: the preprint flag is true for a record whose pages are 'preprint',
\* 'to appear' or 'in preparation' and for a record without pages and
\* journal, and false for a record with other pages and a journal.
C9_PreprintFlag ==
    pc = "defined" =>
        /\ Sentinel(bt.fields) => bt.is_preprint
        /\ (~Has(bt.fields, "pages") /\ ~Has(bt.fields, "journal")) => bt.is_preprint
        /\ (Has(bt.fields, "pages") /\ ~Sentinel(bt.fields) /\ Has(bt.fields, "journal"))
           => ~bt.is_preprint

\* C10: for a record with a journal and pages that are no sentinel, pages of
\* the form first page, hyphens, last page give ipage and fpage, and pages
\* that are one number give ipage and no fpage.
C10_PageTerms ==
    ( /\ pc = "defined"
      /\ Has(bt.fields, "journal")
      /\ Has(bt.fields, "pages")
      /\ ~Sentinel(bt.fields) )
    => /\ PageRange(Get(bt.fields, "pages")) =>
              /\ {"ipage", "fpage"} \subseteq DOMAIN bt.search
              /\ bt.search["ipage"] = FirstPage(Get(bt.fields, "pages"))
              /\ bt.search["fpage"] = LastPage(Get(bt.fields, "pages"))
       /\ isdigit(Get(bt.fields, "pages")) =>
              /\ "ipage" \in DOMAIN bt.search
              /\ "fpage" \notin DOMAIN bt.search
              /\ bt.search["ipage"] = Get(bt.fields, "pages")

\* the new file when the first i (0 or 1) entries have been written as they
\* were read: the text before the first '@', the entry and two newlines
Verbatim(i) ==
    SubSeq(bibtexfile, 1, asterisk(bibtexfile) - 1)
    \o (IF i = 0 THEN << >> ELSE papers[1] \o <<"\n", "\n">>)

\* C11: an entry whose text does not match parse_bibtex_entry becomes a
\* record without an exception being raised; the record has no fields and no
\* entry type, no lookup is requested for it, and the text printed for it,
\* and written to the new file, is the text of the entry, character by
\* character.
C11_UnparsedPassesThrough ==
    /\ (pc = "exit" /\ idx \in DOMAIN papers) => parse_bibtex_entry(papers[idx]).found
    /\ (pc = "write" /\ ~parse_bibtex_entry(papers[idx]).found) =>
           /\ ~bt.parsed /\ bt.fields = << >> /\ bt.pub_type = ""
           /\ ~has_valid_pub_type(bt)
           /\ requests = << >>
           /\ status = -1
           /\ Bibtex_text(bt, options) = papers[idx]
    /\ (pc = "next" /\ idx = 2 /\ ~parse_bibtex_entry(papers[1]).found) =>
           newbibfile = Verbatim(1)

\* an entry that did not parse has been written
C11_Witness ==
    /\ pc = "next" /\ idx = 2
    /\ ~parse_bibtex_entry(papers[1]).found
    /\ ~bt.parsed /\ bt.bib_string = papers[1]
    /\ newbibfile = papers[1] \o <<"\n", "\n">>

C13_RemovedFieldsNotWritten ==
    /\ [](pc = "read back" =>
             \A i \in DOMAIN reread : \A key \in options.remove_fields :
                 ~Has(reread[i].fields, key))
    /\ [][pc = "write" => bt' = bt]_vars

\* a record with a year has been written without it, with its other fields
C13_Witness ==
    /\ pc = "read back"
    /\ options.remove_fields = {"year"}
    /\ Has(bt.fields, "year") /\ Has(bt.fields, "title")
    /\ Len(reread) = 1
    /\ ~Has(reread[1].fields, "year")
    /\ Has(reread[1].fields, "title")

\* the text that main writes for the records rs
RECURSIVE written(_, _)
written(rs, opts) ==
    IF rs = << >> THEN << >>
    ELSE Bibtex_text(Head(rs), opts) \o <<"\n", "\n">> \o written(Tail(rs), opts)

\* C14: with no field removed and whatever the wrap width, the text written
\* for a record that parsed (changed by a lookup or not) is read back as a
\* record with the same type, the same key and the same fields, and the
\* record read back is printed as the same text.
C14_RoundTrip ==
    (pc = "read back" /\ options.remove_fields = {}) =>
        /\ \A i \in DOMAIN out :
               ~out[i].raw =>
                   /\ i \in DOMAIN reread
                   /\ reread[i].parsed
                   /\ reread[i].pub_type = out[i].pub_type
                   /\ reread[i].cite_key = out[i].cite_key
                   /\ reread[i].fields = out[i].fields
        /\ (\A i \in DOMAIN out : ~out[i].raw) =>
               written(reread, options) = newbibfile

\* C15: replace_fonts applied to the string that replace_fonts returned gives
\* that string again.
C15_ReplaceFontsIdempotent ==
    Len(out) = 2 => out[2] = out[1]

\* a string in which replace_fonts replaced a font has been given to it again
C15_Witness ==
    /\ Len(out) = 2
    /\ out[1] # papers[1]
    /\ out[2] = out[1]

\* C16: a title that is not empty matches itself: good_match of its cleaned
\* title with its cleaned title is true, whatever fuzzywuzzy release is
\* installed and without fuzzywuzzy, also when the cleaned title is empty.
C16_TitleMatchesItself ==
    (pc = "matched" /\ papers[1] # << >> /\ papers[2] = papers[1]) => call.ret

\* a title without the characters {, }, quotes, _ and $
Stripped(t) == SelectSeq(t, LAMBDA c : c \notin {"{", "}", "'", "\"", "_", "$"})

\* two titles that differ only in the case of letters and in those characters
SameUpToMarkup(t, u) == lower(Stripped(t)) = lower(Stripped(u))

\* the title has text between one $ and the next $
HasMath(t) ==
    \E i, j \in DOMAIN t :
        /\ i + 1 < j
        /\ t[i] = "$" /\ t[j] = "$"
        /\ \A k \in (i + 1)..(j - 1) : t[k] # "$"

Preamble(text) ==
    IF asterisk(text) = 0 THEN text ELSE SubSeq(text, 1, asterisk(text) - 1)

\* C18: on every text, also one without any '@', the run ends with exit
\* status 0 unless a lookup could not connect, and when this is not a check
\* the new file begins with the text before the first '@' (the whole text
\* when there is none).
C18_EveryTextSucceeds ==
    /\ pc = "exit" => err.msg = "unable to connect to"
    /\ pc = "done" => status = 0
    /\ (pc \notin {"start", "exit"} /\ ~options.check) =>
           /\ Len(newbibfile) >= Len(Preamble(bibtexfile))
           /\ SubSeq(newbibfile, 1, Len(Preamble(bibtexfile))) = Preamble(bibtexfile)

\* C19: the fields of a record are changed by update_entry only from a
\* candidate whose cleaned title matches the cleaned title of the record,
\* also for a record without a title or searched by its pages.
C19_OverwrittenOnlyOnTitleMatch ==
    (pc = "returned" /\ bt.fields # call.before.fields) =>
        /\ Len(call.matches) = 1
        /\ good_match(fuzzywuzzy, clean_title(Get(call.before.fields, "title")),
                      clean_title(Get(call.matches[1].fields, "title")))

\* C20: whatever update methods have been called on a record, every field
\* of preserve_fields that the entry had has the value it had in the entry,
\* and a field of preserve_fields that the entry did not have has not been
\* added.
C20_PreservedFieldsKept ==
    (HasCurrent /\ papers[Current].parsed) =>
        \A key \in options.preserve_fields :
            /\ Has(bt.fields, key) = Has(papers[Current].fields, key)
            /\ Get(bt.fields, key) = Get(papers[Current].fields, key)

\* a record has been overwritten from a candidate with another year, and has
\* kept its year
C20_Witness ==
    /\ HasCurrent
    /\ options.preserve_fields = {"year"}
    /\ call.ret /\ Len(call.matches) = 1
    /\ Has(papers[Current].fields, "year")
    /\ Get(call.matches[1].fields, "year") # Get(papers[Current].fields, "year")
    /\ bt.fields # papers[Current].fields
    /\ Get(bt.fields, "year") = Get(papers[Current].fields, "year")

\* the keys listed by the messages sent during the call
ReportedKeys == UNION {{log[j].diffs[i] : i \in DOMAIN log[j].diffs} : j \in DOMAIN log}

\* the differences of a record and a candidate without the fields of
\* remove_fields
KeptDifferences(self, match, opts) ==
    SelectSeq(differences(self, match, opts), LAMBDA key : key \notin opts.remove_fields)

\* C21: when update_entry has a unique match, no field of remove_fields is
\* among the differences: no such field is listed in a message, none is
\* overwritten or added, and the record is changed or reported only when one
\* of the other differences has a value in the record.
C21_RemovedFieldsNotCompared ==
    (pc = "returned" /\ Len(call.matches) = 1) =>
        /\ \A key \in options.remove_fields :
               /\ key \notin ReportedKeys
               /\ Has(bt.fields, key) = Has(call.before.fields, key)
               /\ Get(bt.fields, key) = Get(call.before.fields, key)
        /\ (bt # call.before \/ log # << >>) =>
               actionable(call.before, KeptDifferences(call.before, call.matches[1], options))

\* C22: after a call of update_entry either no field of the record has
\* changed, or there is a unique match and every field of the match that is
\* not in preserve_fields has the value of the match in the record.
C22_AllOrNothing ==
    pc = "returned" =>
        \/ bt.fields = call.before.fields
        \/ /\ Len(call.matches) = 1
           /\ \A i \in DOMAIN call.matches[1].fields :
                  call.matches[1].fields[i].k \notin options.preserve_fields =>
                      Get(bt.fields, call.matches[1].fields[i].k) = call.matches[1].fields[i].v

\* a record has taken three differing fields of its unique match
C22_Witness ==
    /\ pc = "returned"
    /\ Len(call.matches) = 1
    /\ Len(differences(call.before, call.matches[1], options)) = 3
    /\ bt.fields # call.before.fields
    /\ \A i \in DOMAIN call.matches[1].fields :
           Get(bt.fields, call.matches[1].fields[i].k) = call.matches[1].fields[i].v

\* C23: every field listed by the change report of a unique match had a
\* non-empty value in the record before the call and a different value in
\* the match; a field that the match adds to the record is not listed, with
\* options.check on and off.
C23_OnlyExistingFieldsReported ==
    (pc = "returned" /\ Len(call.matches) = 1) =>
        \A key \in ReportedKeys :
            /\ Get(call.before.fields, key) # << >>
            /\ Get(call.before.fields, key) # Get(call.matches[1].fields, key)

Unpublished(fields) ==
    Sentinel(fields) \/ (~Has(fields, "pages") /\ ~Has(fields, "journal"))

C27_ShortAuthorTermDropped ==
    (pc = "defined" /\ "au" \in DOMAIN bt.search) => Len(bt.search["au"]) >= 6

\* the authors of the field author in which a surname is found
Surnamed(fields) ==
    LET aus == split_amp(author_list(Get(fields, "author")))
    IN {i \in DOMAIN aus : author(strip(aus[i])).found}

\* C27 as amended: only an empty author term is dropped. An author term of
\* the query has at least 1 character, and the query has an author term
\* exactly when the record has an author field in which a surname is found.
C27_EmptyAuthorTermDropped ==
    pc = "defined" =>
        /\ "au" \in DOMAIN bt.search => Len(bt.search["au"]) >= 1
        /\ "au" \in DOMAIN bt.search <=>
               (Has(bt.fields, "author") /\ Surnamed(bt.fields) # {})

\* the author 'A B' is searched by the surname B
C27_Witness ==
    /\ pc = "defined"
    /\ "au" \in DOMAIN bt.search
    /\ Len(bt.search["au"]) = 1
    /\ Cardinality(Surnamed(bt.fields)) = 1

\* C28: update_mathscinet makes its request only for a record that has an
\* mrnumber field; for a record without an mrnumber field it makes no
\* request and raises no error.
C28_MathscinetNeedsMrnumber ==
    call.method = "mathscinet" =>
        /\ call.requested => Has(call.before.fields, "mrnumber")
        /\ ~Has(call.before.fields, "mrnumber") => (~call.requested /\ err = NoError)

\* the fields of the record before the last call of an update method that
\* the unique match of that call, if there was one, does not have
NotCarried ==
    {i \in DOMAIN call.before.fields :
        Len(call.matches) # 1 \/ ~Has(call.matches[1].fields, call.before.fields[i].k)}

\* C29: at every point of the processing of a record, after any number of
\* calls of update methods, the record has the cite key and the type of the
\* entry read, the keys of the entry read are the first keys of the record in
\* their order, so that overwritten fields keep their place and added fields
\* come last, and every field that the match of the last call does not have
\* is as it was before that call.
C29_KeyTypeAndOrderKept ==
    (HasCurrent /\ papers[Current].parsed) =>
        /\ bt.cite_key = papers[Current].cite_key
        /\ bt.pub_type = papers[Current].pub_type
        /\ Len(bt.fields) >= Len(papers[Current].fields)
        /\ \A i \in DOMAIN papers[Current].fields :
               bt.fields[i].k = papers[Current].fields[i].k
        /\ call.method # "" =>
               \A i \in NotCarried : bt.fields[i] = call.before.fields[i]

\* a record has been overwritten from its unique match: its first field is
\* kept, a later field is overwritten in place and a field is added
C29_Witness ==
    /\ HasCurrent
    /\ Len(call.matches) = 1
    /\ 1 \in NotCarried
    /\ \E i \in DOMAIN call.before.fields :
           i > 1 /\ bt.fields[i].k = call.before.fields[i].k
                 /\ bt.fields[i].v # call.before.fields[i].v
    /\ Len(bt.fields) > Len(papers[Current].fields)

\* C30: a call of update_ams ends, whatever the databases answer. It calls
\* at most as many database methods as options.ams_databases has entries,
\* the entries in the order of the list and each position once, and at most
\* one request is made per method called.
C30_UpdateAmsBounded ==
    /\ [](db <= Len(options.ams_databases) /\ Len(requests) <= db)
    /\ [][pc = "ams" =>
             \/ pc' = "write" /\ db' = db
             \/ /\ db' = db + 1
                /\ bt.needs_ams
                /\ call'.method = options.ams_databases[db']]_vars
    /\ <>(pc # "ams")

\* update_ams has gone through a list of three databases and returned
C30_Witness ==
    /\ pc = "write"
    /\ Len(options.ams_databases) = 3
    /\ db = 3
    /\ call.method = options.ams_databases[3]
    /\ Len(requests) = 2

=============================================================================
